---- MODULE Spec2Model ----
(***************************************************************************)
(* ShopEase customer-support chat (src/app.py): the session controller of  *)
(* the Streamlit script, the language detector, the quick-action           *)
(* suggester, the streaming completion window and the catalog loaders.     *)
(*                                                                         *)
(* A text is a sequence of Unicode code points, so that the substring      *)
(* tests, the lower-casing and the Devanagari range test of the source are *)
(* computed and not assumed.  The empty sequence stands for both None and  *)
(* "": the source only ever tests these values for truthiness.             *)
(***************************************************************************)
EXTENDS Integers, Sequences, FiniteSets

VARIABLES
  \* st.session_state (app.py:157-174)
  messages, processing, quick_action_trigger, auto_scroll,
  \* the script run in progress and what it last rendered
  pc, stream, full_response, api_messages_payload, chat_input_disabled, quick_buttons,
  \* history: the last step, the submission being answered, what the stream gave
  event, accepted, delivered, failure,
  \* the helper functions applied to one text
  in_text, in_lang, out_lang, out_buttons, fn_pc,
  \* start-up: the catalog files and what the loaders returned
  products_file, orders_file, products, orders, startup_pc

sessionVars == <<messages, processing, quick_action_trigger, auto_scroll, pc, stream,
                 full_response, api_messages_payload, chat_input_disabled, quick_buttons,
                 event, accepted, delivered, failure>>
textVars == <<in_text, in_lang, out_lang, out_buttons, fn_pc>>
loadVars == <<products_file, orders_file, products, orders, startup_pc>>
vars == <<sessionVars, textVars, loadVars>>

(***************************************************************************)
(* Bounds of the model.                                                    *)
(***************************************************************************)
\* number of words of a text given to detect_language and to the suggester
MaxWords == 4

(***************************************************************************)
(* Texts.                                                                  *)
(***************************************************************************)
None == <<>>

Last(s) == s[Len(s)]

Range(s) == {s[i] : i \in 1..Len(s)}

RECURSIVE Flatten(_)
Flatten(ss) == IF ss = <<>> THEN <<>> ELSE Head(ss) \o Flatten(Tail(ss))

\* str.lower() on the code points the model uses: A-Z map to a-z, Devanagari
\* letters, digits, punctuation and emoji have no case.
lower(text) == [i \in 1..Len(text) |-> IF text[i] >= 65 /\ text[i] <= 90
                                        THEN text[i] + 32 ELSE text[i]]

\* Python's `word in text` on strings: word occurs as a contiguous substring.
Contains(text, word) ==
  \E i \in 0..(Len(text) - Len(word)) : \A j \in 1..Len(word) : text[i + j] = word[j]

\* re.compile(r'[\u0900-\u097F]').search(text): 0x0900 = 2304, 0x097F = 2431
devanagari_pattern_search(text) ==
  \E i \in 1..Len(text) : text[i] >= 2304 /\ text[i] <= 2431

\* app.py:186: "mera", "kya", "kahan", "kaise", "hai", "mein", "ka", "ki", "ko", "aur",
\*   "order", "karna", "chahta", "chahte"
hindi_words ==
  <<<<109, 101, 114, 97>>,
       <<107, 121, 97>>,
       <<107, 97, 104, 97, 110>>,
       <<107, 97, 105, 115, 101>>,
       <<104, 97, 105>>,
       <<109, 101, 105, 110>>,
       <<107, 97>>,
       <<107, 105>>,
       <<107, 111>>,
       <<97, 117, 114>>,
       <<111, 114, 100, 101, 114>>,
       <<107, 97, 114, 110, 97>>,
       <<99, 104, 97, 104, 116, 97>>,
       <<99, 104, 97, 104, 116, 101>>>>

\* app.py:198: "the", "and", "or", "but", "what", "how", "where", "when", "why", "is",
\*   "are", "can", "do", "does", "will", "would", "should", "could"
english_words ==
  <<<<116, 104, 101>>,
       <<97, 110, 100>>,
       <<111, 114>>,
       <<98, 117, 116>>,
       <<119, 104, 97, 116>>,
       <<104, 111, 119>>,
       <<119, 104, 101, 114, 101>>,
       <<119, 104, 101, 110>>,
       <<119, 104, 121>>,
       <<105, 115>>,
       <<97, 114, 101>>,
       <<99, 97, 110>>,
       <<100, 111>>,
       <<100, 111, 101, 115>>,
       <<119, 105, 108, 108>>,
       <<119, 111, 117, 108, 100>>,
       <<115, 104, 111, 117, 108, 100>>,
       <<99, 111, 117, 108, 100>>>>

\* the two `for word in ...: if word in text_lower: indicators += 1` loops
RECURSIVE count_indicators(_, _, _)
count_indicators(words, text_lower, indicators) ==
  IF words = <<>> THEN indicators
  ELSE count_indicators(Tail(words), text_lower,
                        IF Contains(text_lower, Head(words))
                        THEN indicators + 1 ELSE indicators)

\* a detector that also answers "hi" on a tie of the two counts
detect_language_tie_hi(text) ==
  IF devanagari_pattern_search(text) THEN "hi"
  ELSE LET text_lower == lower(text)
           hindi_indicators == count_indicators(hindi_words, text_lower, 0)
           english_indicators == count_indicators(english_words, text_lower, 0)
       IN  IF hindi_indicators >= english_indicators THEN "hi" ELSE "en"

detect_language(text) ==
  IF devanagari_pattern_search(text) THEN "hi"
  ELSE LET text_lower == lower(text)
           hindi_indicators == count_indicators(hindi_words, text_lower, 0)
           english_indicators == count_indicators(english_words, text_lower, 0)
       IN  IF hindi_indicators > english_indicators THEN "hi" ELSE "en"

(***************************************************************************)
(* Quick-action suggester.  A button is a pair <<label, utterance>>.       *)
(***************************************************************************)
\* app.py:291: "return", "refund", "\u0930\u093f\u091f\u0930\u094d\u0928"
return_words ==
  <<<<114, 101, 116, 117, 114, 110>>,
       <<114, 101, 102, 117, 110, 100>>,
       <<2352, 2367, 2335, 2352, 2381, 2344>>>>

\* app.py:303: "order", "tracking", "\u0911\u0930\u094d\u0921\u0930"
order_words ==
  <<<<111, 114, 100, 101, 114>>,
       <<116, 114, 97, 99, 107, 105, 110, 103>>,
       <<2321, 2352, 2381, 2337, 2352>>>>

\* app.py:309: "payment", "\u092d\u0941\u0917\u0924\u093e\u0928"
payment_words ==
  <<<<112, 97, 121, 109, 101, 110, 116>>,
       <<2349, 2369, 2327, 2340, 2366, 2344>>>>

\* app.py:315: "product", "\u0909\u0924\u094d\u092a\u093e\u0926"
product_words ==
  <<<<112, 114, 111, 100, 117, 99, 116>>,
       <<2313, 2340, 2381, 2346, 2366, 2342>>>>

\* app.py:294-295: ("\U0001f504 \u0930\u093f\u091f\u0930\u094d\u0928
\*   \u0936\u0941\u0930\u0942 \u0915\u0930\u0947\u0902", "\u092e\u0948\u0902 \u090f\u0915
\*   \u0906\u0907\u091f\u092e \u0935\u093e\u092a\u0938 \u0915\u0930\u0928\u093e
\*   \u091a\u093e\u0939\u0924\u093e \u0939\u0942\u0902"), ("\U0001f4cb
\*   \u0930\u093f\u091f\u0930\u094d\u0928 \u092a\u0949\u0932\u093f\u0938\u0940",
\*   "\u0930\u093f\u091f\u0930\u094d\u0928 \u092a\u0949\u0932\u093f\u0938\u0940
\*   \u0915\u094d\u092f\u093e \u0939\u0948?")
return_buttons_hi ==
  <<<<<<128260, 32, 2352, 2367, 2335, 2352, 2381, 2344, 32, 2358, 2369, 2352, 2370, 32, 2325,
       2352, 2375, 2306>>,
  <<2350, 2376, 2306, 32, 2319, 2325, 32, 2310, 2311, 2335, 2350, 32, 2357, 2366, 2346, 2360,
       32, 2325, 2352, 2344, 2366, 32, 2330, 2366, 2361, 2340, 2366, 32, 2361, 2370, 2306>>>>,
  <<<<128203, 32, 2352, 2367, 2335, 2352, 2381, 2344, 32, 2346, 2377, 2354, 2367, 2360,
       2368>>,
  <<2352, 2367, 2335, 2352, 2381, 2344, 32, 2346, 2377, 2354, 2367, 2360, 2368, 32, 2325,
       2381, 2351, 2366, 32, 2361, 2376, 63>>>>>>

\* app.py:299-300: ("\U0001f504 Initiate Return", "I want to initiate a return"),
\*   ("\U0001f4cb Return Policy", "What is your return policy?")
return_buttons_en ==
  <<<<<<128260, 32, 73, 110, 105, 116, 105, 97, 116, 101, 32, 82, 101, 116, 117, 114, 110>>,
  <<73, 32, 119, 97, 110, 116, 32, 116, 111, 32, 105, 110, 105, 116, 105, 97, 116, 101, 32,
       97, 32, 114, 101, 116, 117, 114, 110>>>>,
  <<<<128203, 32, 82, 101, 116, 117, 114, 110, 32, 80, 111, 108, 105, 99, 121>>,
  <<87, 104, 97, 116, 32, 105, 115, 32, 121, 111, 117, 114, 32, 114, 101, 116, 117, 114, 110,
       32, 112, 111, 108, 105, 99, 121, 63>>>>>>

\* app.py:305: ("\U0001f4e6 \u0926\u0942\u0938\u0930\u093e \u0911\u0930\u094d\u0921\u0930
\*   \u091f\u094d\u0930\u0948\u0915 \u0915\u0930\u0947\u0902", "\u092e\u0948\u0902
\*   \u0926\u0942\u0938\u0930\u093e \u0911\u0930\u094d\u0921\u0930
\*   \u091f\u094d\u0930\u0948\u0915 \u0915\u0930\u0928\u093e \u091a\u093e\u0939\u0924\u093e
\*   \u0939\u0942\u0902")
order_buttons_hi ==
  <<<<<<128230, 32, 2342, 2370, 2360, 2352, 2366, 32, 2321, 2352, 2381, 2337, 2352, 32, 2335,
       2381, 2352, 2376, 2325, 32, 2325, 2352, 2375, 2306>>,
  <<2350, 2376, 2306, 32, 2342, 2370, 2360, 2352, 2366, 32, 2321, 2352, 2381, 2337, 2352, 32,
       2335, 2381, 2352, 2376, 2325, 32, 2325, 2352, 2344, 2366, 32, 2330, 2366, 2361, 2340,
       2366, 32, 2361, 2370, 2306>>>>>>

\* app.py:307: ("\U0001f4e6 Track Another Order", "I want to track another order")
order_buttons_en ==
  <<<<<<128230, 32, 84, 114, 97, 99, 107, 32, 65, 110, 111, 116, 104, 101, 114, 32, 79, 114,
       100, 101, 114>>,
  <<73, 32, 119, 97, 110, 116, 32, 116, 111, 32, 116, 114, 97, 99, 107, 32, 97, 110, 111, 116,
       104, 101, 114, 32, 111, 114, 100, 101, 114>>>>>>

\* app.py:311: ("\U0001f4b3 \u092d\u0941\u0917\u0924\u093e\u0928
\*   \u0935\u093f\u0927\u093f\u092f\u093e\u0902", "\u092d\u0941\u0917\u0924\u093e\u0928
\*   \u0915\u0940 \u0935\u093f\u0927\u093f\u092f\u093e\u0902 \u0915\u094d\u092f\u093e
\*   \u0939\u0948\u0902?")
payment_buttons_hi ==
  <<<<<<128179, 32, 2349, 2369, 2327, 2340, 2366, 2344, 32, 2357, 2367, 2343, 2367, 2351,
       2366, 2306>>,
  <<2349, 2369, 2327, 2340, 2366, 2344, 32, 2325, 2368, 32, 2357, 2367, 2343, 2367, 2351,
       2366, 2306, 32, 2325, 2381, 2351, 2366, 32, 2361, 2376, 2306, 63>>>>>>

\* app.py:313: ("\U0001f4b3 Payment Methods", "What payment methods do you accept?")
payment_buttons_en ==
  <<<<<<128179, 32, 80, 97, 121, 109, 101, 110, 116, 32, 77, 101, 116, 104, 111, 100, 115>>,
  <<87, 104, 97, 116, 32, 112, 97, 121, 109, 101, 110, 116, 32, 109, 101, 116, 104, 111, 100,
       115, 32, 100, 111, 32, 121, 111, 117, 32, 97, 99, 99, 101, 112, 116, 63>>>>>>

\* app.py:317: ("\U0001f6cd\ufe0f \u0905\u0927\u093f\u0915
\*   \u0909\u0924\u094d\u092a\u093e\u0926", "\u092e\u0941\u091d\u0947 \u0914\u0930
\*   \u0909\u0924\u094d\u092a\u093e\u0926 \u0926\u093f\u0916\u093e\u090f\u0902")
product_buttons_hi ==
  <<<<<<128717, 65039, 32, 2309, 2343, 2367, 2325, 32, 2313, 2340, 2381, 2346, 2366, 2342>>,
  <<2350, 2369, 2333, 2375, 32, 2324, 2352, 32, 2313, 2340, 2381, 2346, 2366, 2342, 32, 2342,
       2367, 2326, 2366, 2319, 2306>>>>>>

\* app.py:319: ("\U0001f6cd\ufe0f More Products", "Show me more products")
product_buttons_en ==
  <<<<<<128717, 65039, 32, 77, 111, 114, 101, 32, 80, 114, 111, 100, 117, 99, 116, 115>>,
  <<83, 104, 111, 119, 32, 109, 101, 32, 109, 111, 114, 101, 32, 112, 114, 111, 100, 117, 99,
       116, 115>>>>>>

\* any(word in response_text.lower() for word in words)
any_word_in(words, text_lower) ==
  \E i \in 1..Len(words) : Contains(text_lower, words[i])

\* a suggester that scans order/tracking before returns/refunds
suggest_order_first(response_text, user_lang) ==
  LET t == lower(response_text)
      hi == user_lang = "hi"
      b1 == IF any_word_in(order_words, t)
            THEN (IF hi THEN order_buttons_hi ELSE order_buttons_en) ELSE <<>>
      b2 == IF any_word_in(return_words, t)
            THEN b1 \o (IF hi THEN return_buttons_hi ELSE return_buttons_en) ELSE b1
      b3 == IF any_word_in(payment_words, t)
            THEN b2 \o (IF hi THEN payment_buttons_hi ELSE payment_buttons_en) ELSE b2
  IN  IF any_word_in(product_words, t)
      THEN b3 \o (IF hi THEN product_buttons_hi ELSE product_buttons_en) ELSE b3

\* a suggester whose returns/refunds topic extends both locales' buttons
suggest_both_locales(response_text, user_lang) ==
  LET t == lower(response_text)
      hi == user_lang = "hi"
      b1 == IF any_word_in(return_words, t)
            THEN return_buttons_hi \o return_buttons_en ELSE <<>>
      b2 == IF any_word_in(order_words, t)
            THEN b1 \o (IF hi THEN order_buttons_hi ELSE order_buttons_en) ELSE b1
      b3 == IF any_word_in(payment_words, t)
            THEN b2 \o (IF hi THEN payment_buttons_hi ELSE payment_buttons_en) ELSE b2
  IN  IF any_word_in(product_words, t)
      THEN b3 \o (IF hi THEN product_buttons_hi ELSE product_buttons_en) ELSE b3

\* buttons_to_show as add_quick_action_buttons_streamlit builds it
add_quick_action_buttons_streamlit(response_text, user_lang) ==
  LET t == lower(response_text)
      hi == user_lang = "hi"
      b1 == IF any_word_in(return_words, t)
            THEN (IF hi THEN return_buttons_hi ELSE return_buttons_en) ELSE <<>>
      b2 == IF any_word_in(order_words, t)
            THEN b1 \o (IF hi THEN order_buttons_hi ELSE order_buttons_en) ELSE b1
      b3 == IF any_word_in(payment_words, t)
            THEN b2 \o (IF hi THEN payment_buttons_hi ELSE payment_buttons_en) ELSE b2
  IN  IF any_word_in(product_words, t)
      THEN b3 \o (IF hi THEN product_buttons_hi ELSE product_buttons_en) ELSE b3


(***************************************************************************)
(* Session controller: one Streamlit script run per event.                 *)
(***************************************************************************)
\* number of submissions a session accepts
MaxTurns == 2
\* number of fragments one completion stream delivers
MaxChunks == 1
\* completed turns of the transcripts given to the completion window
MaxHistory == 5

\* st.session_state.messages[-8:]
HistoryWindow == 8

\* app.py:161: "\U0001f44b Hello! I'm ShopEase AI Assistant. I can help you
\*   with:\n\n\U0001f6d2 Order tracking & status\n\U0001f504 Returns & exchanges\n\U0001f4b0
\*   Refunds & payments\n\U0001f4e6 Delivery information\n\U0001f6cd\ufe0f Product
\*   recommendations\n\nHow can I assist you today?"
greeting ==
    <<128075, 32, 72, 101, 108, 108, 111, 33, 32, 73, 39, 109, 32, 83, 104, 111, 112, 69, 97,
    115, 101, 32, 65, 73, 32, 65, 115, 115, 105, 115, 116, 97, 110, 116, 46, 32, 73, 32, 99, 97,
    110, 32, 104, 101, 108, 112, 32, 121, 111, 117, 32, 119, 105, 116, 104, 58, 10, 10, 128722,
    32, 79, 114, 100, 101, 114, 32, 116, 114, 97, 99, 107, 105, 110, 103, 32, 38, 32, 115, 116,
    97, 116, 117, 115, 10, 128260, 32, 82, 101, 116, 117, 114, 110, 115, 32, 38, 32, 101, 120,
    99, 104, 97, 110, 103, 101, 115, 10, 128176, 32, 82, 101, 102, 117, 110, 100, 115, 32, 38,
    32, 112, 97, 121, 109, 101, 110, 116, 115, 10, 128230, 32, 68, 101, 108, 105, 118, 101, 114,
    121, 32, 105, 110, 102, 111, 114, 109, 97, 116, 105, 111, 110, 10, 128717, 65039, 32, 80,
    114, 111, 100, 117, 99, 116, 32, 114, 101, 99, 111, 109, 109, 101, 110, 100, 97, 116, 105,
    111, 110, 115, 10, 10, 72, 111, 119, 32, 99, 97, 110, 32, 73, 32, 97, 115, 115, 105, 115,
    116, 32, 121, 111, 117, 32, 116, 111, 100, 97, 121, 63>>

\* SYSTEM_PROMPT and the two catalog instructions come from prompts.py, which is
\* not among the sources: the assembled prompt is kept as one opaque text, "system".
system_prompt_with_data == <<115, 121, 115, 116, 101, 109>>

\* app.py:508,512,516,520: "I want to track my order", "Show me popular products", "I want
\*   to return an item", "What payment methods do you accept?"
sidebar_actions ==
  <<<<73, 32, 119, 97, 110, 116, 32, 116, 111, 32, 116, 114, 97, 99, 107, 32, 109, 121, 32,
       111, 114, 100, 101, 114>>,
       <<83, 104, 111, 119, 32, 109, 101, 32, 112, 111, 112, 117, 108, 97, 114, 32, 112, 114,
       111, 100, 117, 99, 116, 115>>,
       <<73, 32, 119, 97, 110, 116, 32, 116, 111, 32, 114, 101, 116, 117, 114, 110, 32, 97,
       110, 32, 105, 116, 101, 109>>,
       <<87, 104, 97, 116, 32, 112, 97, 121, 109, 101, 110, 116, 32, 109, 101, 116, 104, 111,
       100, 115, 32, 100, 111, 32, 121, 111, 117, 32, 97, 99, 99, 101, 112, 116, 63>>>>

\* app.py:534-545: "What is the status of order ORD12345?", "Tell me about the Smartwatch
\*   Pro X", "How do I return the Bluetooth headphones?", "Show me electronics products",
\*   "What's the refund status for order ORD12348?", "\u092e\u0947\u0930\u093e
\*   \u0911\u0930\u094d\u0921\u0930 ORD12346 \u0915\u0939\u093e\u0901 \u0939\u0948?", "Which
\*   products have the best ratings?", "Can I change my delivery address?", "What payment
\*   methods do you accept?", "Show me products under \u20b9100"
test_queries ==
  <<<<87, 104, 97, 116, 32, 105, 115, 32, 116, 104, 101, 32, 115, 116, 97, 116, 117, 115, 32,
       111, 102, 32, 111, 114, 100, 101, 114, 32, 79, 82, 68, 49, 50, 51, 52, 53, 63>>,
       <<84, 101, 108, 108, 32, 109, 101, 32, 97, 98, 111, 117, 116, 32, 116, 104, 101, 32,
       83, 109, 97, 114, 116, 119, 97, 116, 99, 104, 32, 80, 114, 111, 32, 88>>,
       <<72, 111, 119, 32, 100, 111, 32, 73, 32, 114, 101, 116, 117, 114, 110, 32, 116, 104,
       101, 32, 66, 108, 117, 101, 116, 111, 111, 116, 104, 32, 104, 101, 97, 100, 112, 104,
       111, 110, 101, 115, 63>>,
       <<83, 104, 111, 119, 32, 109, 101, 32, 101, 108, 101, 99, 116, 114, 111, 110, 105, 99,
       115, 32, 112, 114, 111, 100, 117, 99, 116, 115>>,
       <<87, 104, 97, 116, 39, 115, 32, 116, 104, 101, 32, 114, 101, 102, 117, 110, 100, 32,
       115, 116, 97, 116, 117, 115, 32, 102, 111, 114, 32, 111, 114, 100, 101, 114, 32, 79,
       82, 68, 49, 50, 51, 52, 56, 63>>,
       <<2350, 2375, 2352, 2366, 32, 2321, 2352, 2381, 2337, 2352, 32, 79, 82, 68, 49, 50, 51,
       52, 54, 32, 2325, 2361, 2366, 2305, 32, 2361, 2376, 63>>,
       <<87, 104, 105, 99, 104, 32, 112, 114, 111, 100, 117, 99, 116, 115, 32, 104, 97, 118,
       101, 32, 116, 104, 101, 32, 98, 101, 115, 116, 32, 114, 97, 116, 105, 110, 103, 115,
       63>>,
       <<67, 97, 110, 32, 73, 32, 99, 104, 97, 110, 103, 101, 32, 109, 121, 32, 100, 101, 108,
       105, 118, 101, 114, 121, 32, 97, 100, 100, 114, 101, 115, 115, 63>>,
       <<87, 104, 97, 116, 32, 112, 97, 121, 109, 101, 110, 116, 32, 109, 101, 116, 104, 111,
       100, 115, 32, 100, 111, 32, 121, 111, 117, 32, 97, 99, 99, 101, 112, 116, 63>>,
       <<83, 104, 111, 119, 32, 109, 101, 32, 112, 114, 111, 100, 117, 99, 116, 115, 32, 117,
       110, 100, 101, 114, 32, 8377, 49, 48, 48>>>>

\* app.py:284,478: "\U0001f614 I apologize, but I encountered an error: "
apology_prefix ==
    <<128532, 32, 73, 32, 97, 112, 111, 108, 111, 103, 105, 122, 101, 44, 32, 98, 117, 116, 32,
    73, 32, 101, 110, 99, 111, 117, 110, 116, 101, 114, 101, 100, 32, 97, 110, 32, 101, 114,
    114, 111, 114, 58, 32>>

\* app.py:284,478: "."
apology_suffix == <<46>>

\* texts typed into st.chat_input
\* "mera order kahan hai"
TypedTexts ==
  <<<<109, 101, 114, 97, 32, 111, 114, 100, 101, 114, 32, 107, 97, 104, 97, 110, 32, 104, 97,
       105>>>>

\* text fragments the completion stream delivers (chunk.choices[0].delta.content)
\* "Payment received. "
Fragments ==
  <<<<80, 97, 121, 109, 101, 110, 116, 32, 114, 101, 99, 101, 105, 118, 101, 100, 46, 32>>>>

\* str(e) of the failures of the completion call
\* "Connection error."
ErrorTexts ==
  <<<<67, 111, 110, 110, 101, 99, 116, 105, 111, 110, 32, 101, 114, 114, 111, 114, 46>>>>

\* the failure of client.chat.completions.create and of iterating its stream:
\* groq's APIConnectionError
ApiErrors == {[cls |-> "APIConnectionError", msg |-> ErrorTexts[1]]}

\* the base class of an exception class (Python's and groq's hierarchies)
BaseOf(cls) ==
  CASE cls = "APITimeoutError" -> "APIConnectionError"
    [] cls = "APIConnectionError" -> "APIError"
    [] cls = "APIError" -> "GroqError"
    [] cls = "GroqError" -> "Exception"
    [] cls = "FileNotFoundError" -> "OSError"
    [] cls = "PermissionError" -> "OSError"
    [] cls = "IsADirectoryError" -> "OSError"
    [] cls = "OSError" -> "Exception"
    [] cls = "JSONDecodeError" -> "ValueError"
    [] cls = "UnicodeDecodeError" -> "UnicodeError"
    [] cls = "UnicodeError" -> "ValueError"
    [] cls = "ValueError" -> "Exception"
    [] cls = "Exception" -> "BaseException"
    [] OTHER -> "object"

\* `except handler:` catches an exception of class cls
RECURSIVE IsInstance(_, _)
IsInstance(cls, handler) ==
  \/ cls = handler
  \/ cls \notin {"BaseException", "object"} /\ IsInstance(BaseOf(cls), handler)

\* a handler that only catches time-outs
except_timeout_only(e) == IsInstance(e.cls, "APITimeoutError")

\* `except Exception as e` of generate_response_stream and of the streaming block
except_Exception(e) == IsInstance(e.cls, "Exception")

\* f"... I apologize, but I encountered an error: {e}."
apology(e) == apology_prefix \o e.msg \o apology_suffix

Message(role, content) == [role |-> role, content |-> content]

\* the last n elements of a list: list[-n:]
LastN(s, n) == IF Len(s) <= n THEN s ELSE SubSeq(s, Len(s) - n + 1, Len(s))

NoClick == [kind |-> "none", msg |-> 0, idx |-> 0]

NoButtons == [index |-> 0, user_lang |-> "en", buttons |-> <<>>]

NoSubmission == [before |-> <<>>, typed |-> None, pending |-> None]

\* a typed prompt that is taken whatever the gate flag says
accepts_typed_ungated(typed_prompt, gate) == typed_prompt # None

\* `if typed_prompt and not st.session_state.processing`
accepts_typed(typed_prompt, gate) == typed_prompt # None /\ ~gate

\* `if st.session_state.quick_action_trigger and not st.session_state.processing`
consumes_trigger(trigger, gate) == trigger # None /\ ~gate

\* new_user_prompt_content and the trigger left in the session state
process_new_user_input(typed_prompt, trigger, gate) ==
  LET from_trigger == IF consumes_trigger(trigger, gate) THEN trigger ELSE None
  IN  [content |-> IF accepts_typed(typed_prompt, gate) THEN typed_prompt ELSE from_trigger,
       trigger |-> IF consumes_trigger(trigger, gate) THEN None ELSE trigger]

\* a display loop that detects the locale of the reply itself
display_quick_buttons_own_locale(msgs, gate) ==
  LET n == Len(msgs)
  IN  IF msgs[n].role = "assistant" /\ n > 1 /\ ~gate
      THEN LET user_lang == detect_language(msgs[n].content)
           IN  [index |-> n, user_lang |-> user_lang,
                buttons |-> add_quick_action_buttons_streamlit(msgs[n].content, user_lang)]
      ELSE NoButtons

\* the display loop's call of add_quick_action_buttons_streamlit: only the iteration
\* of the last message can make it (index is the message's position, from 1)
display_quick_buttons(msgs, gate) ==
  LET n == Len(msgs)
  IN  IF msgs[n].role = "assistant" /\ n > 1 /\ ~gate
      THEN LET user_lang == IF n > 1 /\ msgs[n - 1].role = "user"
                            THEN detect_language(msgs[n - 1].content) ELSE "en"
           IN  [index |-> n, user_lang |-> user_lang,
                buttons |-> add_quick_action_buttons_streamlit(msgs[n].content, user_lang)]
      ELSE NoButtons

\* a window that always appends the current user message
api_messages_payload_always_append(msgs) ==
  LET history_plus_current == LastN(msgs, HistoryWindow)
  IN  <<Message("system", system_prompt_with_data)>> \o history_plus_current
        \o <<Message("user", Last(msgs).content)>>

\* the message list given to generate_response_stream
build_api_messages_payload(msgs) ==
  LET history_plus_current == LastN(msgs, HistoryWindow)
      base == <<Message("system", system_prompt_with_data)>> \o history_plus_current
  IN  IF Last(msgs).role = "user" /\ Last(msgs) \notin Range(history_plus_current)
      THEN Append(base, Message("user", Last(msgs).content))
      ELSE base

\* a completion that leaves the scroll request unset
complete_response_no_scroll(msgs, text) ==
  [messages |-> Append(msgs, Message("assistant", text)),
   processing |-> FALSE, auto_scroll |-> FALSE]

\* the session state after the stream is drained
complete_response(msgs, text) ==
  [messages |-> Append(msgs, Message("assistant", text)),
   processing |-> FALSE, auto_scroll |-> TRUE]

\* the sidebar buttons and the test queries the user clicks, by position; a test
\* query button acts as a sidebar button does, after the scroll request is reset
SidebarClicked == {1}

TestQueriesClicked == {}

\* the buttons the user can click: the sidebar's and the test queries' (they stay
\* on the page while a later run streams), and the quick actions last rendered
ClickableButtons ==
  {[kind |-> "sidebar", msg |-> 0, idx |-> i] : i \in SidebarClicked}
    \cup {[kind |-> "test", msg |-> 0, idx |-> i] : i \in TestQueriesClicked}
    \cup {[kind |-> "quick", msg |-> quick_buttons.index, idx |-> i] :
            i \in 1..Len(quick_buttons.buttons)}

(***************************************************************************)
(* One run of the script, from its top to the point where it waits: for    *)
(* the stream's next fragment, for the rerun it asked for, or for the next *)
(* event.  A run started while another one streams abandons that one.      *)
(***************************************************************************)
RunScript(typed_prompt, clicked) ==
  \E input \in {process_new_user_input(typed_prompt, quick_action_trigger, processing)} :
  \E shown \in {display_quick_buttons(
                   IF input.content # None
                   THEN Append(messages, Message("user", input.content)) ELSE messages,
                   input.content # None \/ processing)} :
    LET new_user_prompt_content == input.content
        accept == new_user_prompt_content # None
        processing1 == accept \/ processing
        last_role == IF accept THEN "user" ELSE Last(messages).role
        quick_hit == /\ clicked.kind = "quick"
                     /\ clicked.msg = shown.index
                     /\ clicked.idx \in 1..Len(shown.buttons)
        streams == ~quick_hit /\ processing1 /\ last_role = "user"
    IN  /\ pc \in {"wait", "rerun", "stream", "crashed", "abandoned"}
        /\ accept => Len(messages) < 2 * MaxTurns
        /\ messages' = IF accept
                       THEN Append(messages, Message("user", new_user_prompt_content))
                       ELSE messages
        /\ processing' = processing1
        /\ chat_input_disabled' = processing
        /\ quick_buttons' = shown
        /\ accepted' = IF accept
                       THEN [before |-> messages, typed |-> typed_prompt,
                             pending |-> quick_action_trigger]
                       ELSE IF processing THEN accepted ELSE NoSubmission
        /\ full_response' = None
        /\ delivered' = <<>>
        /\ failure' = None
        /\ stream' = IF streams THEN "open" ELSE "none"
        /\ api_messages_payload' = IF streams
                                   THEN build_api_messages_payload(messages')
                                   ELSE <<>>
        /\ quick_action_trigger' =
             IF quick_hit THEN shown.buttons[clicked.idx][2]
             ELSE IF streams THEN input.trigger
             ELSE IF clicked.kind = "sidebar" THEN sidebar_actions[clicked.idx]
             ELSE IF clicked.kind = "test" THEN test_queries[clicked.idx]
             ELSE input.trigger
        /\ auto_scroll' =
             IF quick_hit \/ streams \/ clicked.kind = "sidebar"
             THEN auto_scroll ELSE FALSE
        /\ pc' = IF quick_hit THEN "rerun"
                 ELSE IF streams THEN "stream"
                 ELSE IF clicked.kind \in {"sidebar", "test"} THEN "rerun"
                 ELSE "wait"

\* the user submits a text in the chat input, which the page shows enabled
SubmitTyped(t) ==
  /\ ~chat_input_disabled
  /\ RunScript(t, NoClick)
  /\ event' = "typed"
  /\ UNCHANGED <<textVars, loadVars>>

\* the user clicks a button
ClickButton(b) ==
  /\ RunScript(None, b)
  /\ event' = "click"
  /\ UNCHANGED <<textVars, loadVars>>

\* the run st.rerun() asked for
Rerun ==
  /\ pc = "rerun"
  /\ RunScript(None, NoClick)
  /\ event' = "rerun"
  /\ UNCHANGED <<textVars, loadVars>>

\* generate_response_stream yields a fragment; the loop accumulates it
ReceiveChunk(c) ==
  /\ pc = "stream" /\ stream = "open"
  /\ Len(delivered) < MaxChunks
  /\ full_response' = full_response \o c
  /\ delivered' = Append(delivered, c)
  /\ event' = "chunk"
  /\ UNCHANGED <<messages, processing, quick_action_trigger, auto_scroll, pc, stream,
                 api_messages_payload, chat_input_disabled, quick_buttons, accepted,
                 failure, textVars, loadVars>>

\* the completion call, or the iteration of its stream, raises e
StreamError(e) ==
  /\ pc = "stream" /\ stream = "open"
  /\ failure' = e.msg
  /\ event' = "error"
  /\ IF except_Exception(e)
     THEN \* the generator's handler yields the apology as its last fragment
          /\ full_response' = full_response \o apology(e)
          /\ delivered' = Append(delivered, apology(e))
          /\ stream' = "closed"
          /\ pc' = pc
     ELSE IF except_Exception(e)
     THEN \* the streaming block's own handler replaces the reply by the apology
          /\ full_response' = apology(e)
          /\ delivered' = delivered
          /\ stream' = "closed"
          /\ pc' = pc
     ELSE \* uncaught: the run dies with the exception
          /\ pc' = "crashed"
          /\ stream' = "none"
          /\ UNCHANGED <<full_response, delivered>>
  /\ UNCHANGED <<messages, processing, quick_action_trigger, auto_scroll,
                 api_messages_payload, chat_input_disabled, quick_buttons, accepted,
                 textVars, loadVars>>

\* the stream is drained: append the reply, clear the gate, ask for a scroll, rerun
CompleteResponse ==
  /\ pc = "stream" /\ stream \in {"open", "closed"}
  /\ LET s == complete_response(messages, full_response)
     IN  /\ messages' = s.messages
         /\ processing' = s.processing
         /\ auto_scroll' = s.auto_scroll
  /\ pc' = "rerun"
  /\ stream' = "none"
  /\ event' = "complete"
  /\ UNCHANGED <<quick_action_trigger, full_response, api_messages_payload,
                 chat_input_disabled, quick_buttons, accepted, delivered, failure,
                 textVars, loadVars>>

\* lines 460-469 alone, on a transcript of any length
PreparePayload ==
  /\ pc = "prepare"
  /\ api_messages_payload' = build_api_messages_payload(messages)
  /\ pc' = "stream"
  /\ stream' = "open"
  /\ event' = "prepare"
  /\ UNCHANGED <<messages, processing, quick_action_trigger, auto_scroll, full_response,
                 chat_input_disabled, quick_buttons, accepted, delivered, failure,
                 textVars, loadVars>>

(***************************************************************************)
(* A run that a later event cuts short.  The framework ends the running    *)
(* script at its next write to the page or next access to st.session_state *)
(* once another event is pending, and then runs the script for that event. *)
(* The list st.session_state.messages is changed in place by append, so a  *)
(* run can end between an append and the assignment that follows it.       *)
(***************************************************************************)
\* lines 403-405 ran, the run ends before line 413: the trigger is consumed
AbandonAfterConsume ==
  /\ pc \in {"wait", "rerun", "stream", "crashed", "abandoned"}
  /\ consumes_trigger(quick_action_trigger, processing)
  /\ quick_action_trigger' = None
  /\ pc' = "abandoned"
  /\ stream' = "none"
  /\ event' = "abandoned"
  /\ UNCHANGED <<messages, processing, auto_scroll, full_response, api_messages_payload,
                 chat_input_disabled, quick_buttons, accepted, delivered, failure,
                 textVars, loadVars>>

\* lines 403-413 ran, the run ends at the assignment of line 414: the user message
\* is in the transcript and the gate flag is not set
AbandonAfterUserAppend(typed_prompt) ==
  \E input \in {process_new_user_input(typed_prompt, quick_action_trigger, processing)} :
    /\ pc \in {"wait", "rerun", "stream", "crashed", "abandoned"}
    /\ typed_prompt # None => ~chat_input_disabled
    /\ input.content # None
    /\ Len(messages) < 2 * MaxTurns
    /\ messages' = Append(messages, Message("user", input.content))
    /\ quick_action_trigger' = input.trigger
    /\ chat_input_disabled' = processing
    /\ accepted' = [before |-> messages, typed |-> typed_prompt,
                    pending |-> quick_action_trigger]
    /\ pc' = "abandoned"
    /\ stream' = "none"
    /\ full_response' = None
    /\ delivered' = <<>>
    /\ failure' = None
    /\ api_messages_payload' = <<>>
    /\ event' = "abandoned"
    /\ UNCHANGED <<processing, auto_scroll, quick_buttons, textVars, loadVars>>

\* line 481 ran, the run ends at the assignment of line 482: the reply is in the
\* transcript and the gate flag is still set
AbandonAfterAssistantAppend ==
  /\ pc = "stream" /\ stream \in {"open", "closed"}
  /\ messages' = Append(messages, Message("assistant", full_response))
  /\ pc' = "abandoned"
  /\ stream' = "none"
  /\ event' = "abandoned"
  /\ UNCHANGED <<processing, quick_action_trigger, auto_scroll, full_response,
                 api_messages_payload, chat_input_disabled, quick_buttons, accepted,
                 delivered, failure, textVars, loadVars>>

\* lines 481-482 ran, the run ends at the assignment of line 483: the gate flag is
\* cleared, no scroll is asked for
AbandonAfterGateCleared ==
  /\ pc = "stream" /\ stream \in {"open", "closed"}
  /\ messages' = Append(messages, Message("assistant", full_response))
  /\ processing' = FALSE
  /\ pc' = "abandoned"
  /\ stream' = "none"
  /\ event' = "abandoned"
  /\ UNCHANGED <<quick_action_trigger, auto_scroll, full_response,
                 api_messages_payload, chat_input_disabled, quick_buttons, accepted,
                 delivered, failure, textVars, loadVars>>


(***************************************************************************)
(* The helper functions applied to one text.                               *)
(***************************************************************************)
\* words the texts are made of
\* "order", "Kahan", "IS", "return", "Payment", "products", "\u0911\u0930\u094d\u0921\u0930"
Words ==
  <<<<111, 114, 100, 101, 114>>,
       <<75, 97, 104, 97, 110>>,
       <<73, 83>>,
       <<114, 101, 116, 117, 114, 110>>,
       <<80, 97, 121, 109, 101, 110, 116>>,
       <<112, 114, 111, 100, 117, 99, 116, 115>>,
       <<2321, 2352, 2381, 2337, 2352>>>>

RECURSIVE JoinWords(_)
JoinWords(ws) ==
  IF ws = <<>> THEN <<>>
  ELSE IF Len(ws) = 1 THEN Words[ws[1]]
  ELSE Words[ws[1]] \o <<32>> \o JoinWords(Tail(ws))

Texts == {JoinWords(ws) : ws \in UNION {[1..n -> 1..Len(Words)] : n \in 0..MaxWords}}

Detect ==
  /\ fn_pc = "input"
  /\ out_lang' = detect_language(in_text)
  /\ fn_pc' = "detected"
  /\ UNCHANGED <<in_text, in_lang, out_buttons, sessionVars, loadVars>>

Suggest(user_lang) ==
  /\ fn_pc = "input"
  /\ in_lang' = user_lang
  /\ out_buttons' = add_quick_action_buttons_streamlit(in_text, user_lang)
  /\ fn_pc' = "suggested"
  /\ UNCHANGED <<in_text, out_lang, sessionVars, loadVars>>

(***************************************************************************)
(* Start-up: the two catalog loaders, then the session state.              *)
(***************************************************************************)
\* what json.load gives for a readable, well-formed catalog file
Catalogs == {<<>>, <<[id |-> "P001", in_stock |-> TRUE]>>}

\* the ways a catalog file can be wrong
BadFiles == {"missing", "permission_denied", "is_directory", "invalid_utf8",
             "invalid_json"}

Files == {[state |-> "valid", data |-> d] : d \in Catalogs}
           \cup {[state |-> s, data |-> <<>>] : s \in BadFiles}

Returned(value) == [raised |-> "none", value |-> value]

Raised(cls) == [raised |-> cls, value |-> <<>>]

\* `with open(data_path, 'r', encoding='utf-8') as f: return json.load(f)`
open_and_json_load(file) ==
  CASE file.state = "missing" -> Raised("FileNotFoundError")
    [] file.state = "permission_denied" -> Raised("PermissionError")
    [] file.state = "is_directory" -> Raised("IsADirectoryError")
    [] file.state = "invalid_utf8" -> Raised("UnicodeDecodeError")
    [] file.state = "invalid_json" -> Raised("JSONDecodeError")
    [] OTHER -> Returned(file.data)

load_product_data(file) ==
  LET r == open_and_json_load(file)
  IN  IF r.raised = "none" THEN r
      ELSE IF IsInstance(r.raised, "FileNotFoundError") THEN Returned(<<>>)
      ELSE IF IsInstance(r.raised, "JSONDecodeError") THEN Returned(<<>>)
      ELSE r

load_order_data(file) ==
  LET r == open_and_json_load(file)
  IN  IF r.raised = "none" THEN r
      ELSE IF IsInstance(r.raised, "FileNotFoundError") THEN Returned(<<>>)
      ELSE IF IsInstance(r.raised, "JSONDecodeError") THEN Returned(<<>>)
      ELSE r

\* products = load_product_data(): an exception it raises ends the script
LoadProducts ==
  /\ startup_pc = "load_products"
  /\ LET r == load_product_data(products_file)
     IN  IF r.raised = "none"
         THEN products' = r.value /\ startup_pc' = "load_orders"
         ELSE products' = products /\ startup_pc' = "crashed"
  /\ UNCHANGED <<products_file, orders_file, orders, sessionVars, textVars>>

\* orders = load_order_data()
LoadOrders ==
  /\ startup_pc = "load_orders"
  /\ LET r == load_order_data(orders_file)
     IN  IF r.raised = "none"
         THEN orders' = r.value /\ startup_pc' = "init_session"
         ELSE orders' = orders /\ startup_pc' = "crashed"
  /\ UNCHANGED <<products_file, orders_file, products, sessionVars, textVars>>

\* `if "messages" not in st.session_state:` and the four flags after it
InitSessionState ==
  /\ startup_pc = "init_session"
  /\ startup_pc' = "started"
  /\ messages' = <<Message("assistant", greeting)>>
  /\ processing' = FALSE
  /\ quick_action_trigger' = None
  /\ auto_scroll' = FALSE
  /\ UNCHANGED <<pc, stream, full_response, api_messages_payload, chat_input_disabled,
                 quick_buttons, event, accepted, delivered, failure,
                 products_file, orders_file, products, orders, textVars>>


(***************************************************************************)
(* Specifications.                                                         *)
(***************************************************************************)
\* the session after its first run: the greeting alone, nothing pending
SessionInit ==
  /\ messages = <<Message("assistant", greeting)>>
  /\ processing = FALSE
  /\ quick_action_trigger = None
  /\ auto_scroll = FALSE
  /\ pc = "wait"
  /\ stream = "none"
  /\ full_response = None
  /\ api_messages_payload = <<>>
  /\ chat_input_disabled = FALSE
  /\ quick_buttons = NoButtons
  /\ event = "init"
  /\ accepted = NoSubmission
  /\ delivered = <<>>
  /\ failure = None

TextIdle ==
  /\ in_text = None
  /\ in_lang = "en"
  /\ out_lang = "en"
  /\ out_buttons = <<>>
  /\ fn_pc = "idle"

LoadDone ==
  /\ products_file = [state |-> "valid", data |-> <<>>]
  /\ orders_file = [state |-> "valid", data |-> <<>>]
  /\ products = <<>>
  /\ orders = <<>>
  /\ startup_pc = "started"

Init == SessionInit /\ TextIdle /\ LoadDone

Next ==
  \/ \E t \in Range(TypedTexts) : SubmitTyped(t)
  \/ \E b \in ClickableButtons : ClickButton(b)
  \/ Rerun
  \/ \E c \in Range(Fragments) : ReceiveChunk(c)
  \/ \E e \in ApiErrors : StreamError(e)
  \/ CompleteResponse

Spec == Init /\ [][Next]_vars

\* the session when an event can cut a run short
NextAbandon ==
  \/ Next
  \/ AbandonAfterConsume
  \/ \E t \in Range(TypedTexts) \cup {None} : AbandonAfterUserAppend(t)
  \/ AbandonAfterAssistantAppend
  \/ AbandonAfterGateCleared

SpecAbandon == Init /\ [][NextAbandon]_vars

\* the transcript of n completed turns followed by one more user message
Transcript(us, rs) ==
  [i \in 1..(2 * Len(us)) |->
     IF i = 1 THEN Message("assistant", greeting)
     ELSE IF i % 2 = 0 THEN Message("user", us[i \div 2])
     ELSE Message("assistant", rs[i \div 2])]

\* user messages and replies of these transcripts: a typed text and a sidebar
\* utterance, a delivered fragment and an apology
WindowUserTexts == {TypedTexts[1], sidebar_actions[1]}

WindowReplies == {Fragments[1], apology([cls |-> "APIConnectionError", msg |-> ErrorTexts[1]])}

LongTranscripts ==
  UNION {{Transcript(us, rs) : us \in [1..(n + 1) -> WindowUserTexts],
                               rs \in [1..n -> WindowReplies]} : n \in 0..MaxHistory}

\* a session of any length whose last submission was just accepted
InitPayload ==
  /\ messages \in LongTranscripts
  /\ processing = TRUE
  /\ quick_action_trigger = None
  /\ auto_scroll = FALSE
  /\ pc = "prepare"
  /\ stream = "none"
  /\ full_response = None
  /\ api_messages_payload = <<>>
  /\ chat_input_disabled = FALSE
  /\ quick_buttons = NoButtons
  /\ event = "typed"
  /\ accepted = [before |-> SubSeq(messages, 1, Len(messages) - 1),
                 typed |-> Last(messages).content, pending |-> None]
  /\ delivered = <<>>
  /\ failure = None
  /\ TextIdle /\ LoadDone

NextPayload == PreparePayload

SpecPayload == InitPayload /\ [][NextPayload]_vars

InitText ==
  /\ in_text \in Texts
  /\ in_lang = "en"
  /\ out_lang = "en"
  /\ out_buttons = <<>>
  /\ fn_pc = "input"
  /\ SessionInit /\ LoadDone

NextText == Detect \/ \E user_lang \in {"en", "hi"} : Suggest(user_lang)

SpecText == InitText /\ [][NextText]_vars

InitStartup ==
  /\ products_file \in Files
  /\ orders_file \in Files
  /\ products = <<>>
  /\ orders = <<>>
  /\ startup_pc = "load_products"
  /\ messages = <<>>
  /\ processing = FALSE
  /\ quick_action_trigger = None
  /\ auto_scroll = FALSE
  /\ pc = "startup"
  /\ stream = "none"
  /\ full_response = None
  /\ api_messages_payload = <<>>
  /\ chat_input_disabled = FALSE
  /\ quick_buttons = NoButtons
  /\ event = "init"
  /\ accepted = NoSubmission
  /\ delivered = <<>>
  /\ failure = None
  /\ TextIdle

NextStartup == LoadProducts \/ LoadOrders \/ InitSessionState

SpecStartup == InitStartup /\ [][NextStartup]_vars


(***************************************************************************)
(* Properties.                                                             *)
(***************************************************************************)
\* the events that start a script run
RunEvents == {"typed", "click", "rerun"}

\* the gate flag as the last run found it: st.chat_input is drawn with
\* disabled = processing before the run touches the flag
GateAtRun == chat_input_disabled

\* the last step was a run that found the gate clear and took a submission
JustAccepted == event \in RunEvents /\ ~GateAtRun /\ pc = "stream"

\* the text of the submission being answered
SubmittedText == IF accepted.typed # None THEN accepted.typed ELSE accepted.pending

\* user messages no assistant message answers yet
Unanswered ==
  {i \in 1..Len(messages) :
     /\ messages[i].role = "user"
     /\ (i = Len(messages) \/ messages[i + 1].role # "assistant")}

\* C1: while the gate flag is set, a typed submission or a button click appends no
\* message and leaves the transcript as it was, and at no time does more than one
\* user message wait for its completion.
C1_GateRejects ==
  /\ [][processing /\ event' \in {"typed", "click"}
          => messages' = messages /\ accepted' = accepted /\ processing']_vars
  /\ [](Cardinality(Unanswered) <= 1 /\ (stream # "none" => processing))

\* a typed submission arrived while a completion was streaming and was turned down
C1_Witness ==
  /\ event = "typed" /\ GateAtRun
  /\ processing /\ pc = "stream"
  /\ Len(messages) = Len(accepted.before) + 1

C4_TypedOrSuggestion ==
  JustAccepted =>
    /\ Len(messages) = Len(accepted.before) + 1
    /\ accepted.typed # None => accepted.pending = None
    /\ accepted.pending # None =>
         /\ quick_action_trigger = None
         /\ Last(messages) = Message("user", accepted.pending)

\* the number of keywords of a list that occur in the lower-cased text
Hits(words, text) ==
  LET text_lower == lower(text)
  IN  Cardinality({i \in 1..Len(words) : Contains(text_lower, words[i])})

HasDevanagari(text) == \E i \in 1..Len(text) : text[i] \in 2304..2431

\* the locale the detector is to give
LocaleOf(text) ==
  IF HasDevanagari(text) \/ Hits(hindi_words, text) > Hits(english_words, text)
  THEN "hi" ELSE "en"

\* C5: quick actions are computed only for the last message of the transcript, an
\* assistant message, and only while the gate flag is false; their locale is the
\* detected locale of the message before it when that is a user message, and the
\* primary locale otherwise.
C5_QuickActionsForLastReply ==
  quick_buttons.index # 0 =>
    /\ quick_buttons.index = Len(messages)
    /\ quick_buttons.index > 1
    /\ Last(messages).role = "assistant"
    /\ ~processing
    /\ quick_buttons.user_lang =
         IF messages[Len(messages) - 1].role = "user"
         THEN LocaleOf(messages[Len(messages) - 1].content) ELSE "en"

\* quick actions in the secondary locale are on the page
C5_Witness ==
  /\ quick_buttons.index # 0
  /\ quick_buttons.user_lang = "hi"
  /\ Len(quick_buttons.buttons) > 0
  /\ pc = "wait"

\* C6: the message list given to the streaming completion call starts with the one
\* system message and goes on with a tail of the transcript, so the current user
\* message is its last element and is there once, whatever the transcript's length.
C6_CurrentTurnOnce ==
  pc = "stream" =>
    /\ api_messages_payload[1].role = "system"
    /\ \A i \in 2..Len(api_messages_payload) : api_messages_payload[i].role # "system"
    /\ Last(api_messages_payload) = Last(messages)
    /\ \E k \in 1..Len(messages) :
         api_messages_payload =
           <<Message("system", system_prompt_with_data)>>
             \o SubSeq(messages, Len(messages) - k + 1, Len(messages))

\* a transcript longer than the window whose current user text was sent before
C6_Witness ==
  /\ pc = "stream"
  /\ Len(messages) > HistoryWindow + 1
  /\ messages[Len(messages) - 2].content = Last(messages).content

\* C7 as claimed: the suggester gives at most 4 buttons.
C7_AtMostFour == fn_pc = "suggested" => Len(out_buttons) <= 4

\* C7 as amended: the suggester gives a sequence of at most 5 (label, utterance) pairs.
C7_AtMostFive ==
  fn_pc = "suggested" =>
    /\ Len(out_buttons) \in 0..5
    /\ \A i \in 1..Len(out_buttons) :
         /\ Len(out_buttons[i]) = 2
         /\ out_buttons[i][1] # None /\ out_buttons[i][2] # None

\* a reply that names all four topics gets five buttons
C7_Witness == fn_pc = "suggested" /\ Len(out_buttons) = 5

\* the topic a button belongs to, in scan order
TopicOf(b) ==
  IF b \in Range(return_buttons_hi) \cup Range(return_buttons_en) THEN 1
  ELSE IF b \in Range(order_buttons_hi) \cup Range(order_buttons_en) THEN 2
  ELSE IF b \in Range(payment_buttons_hi) \cup Range(payment_buttons_en) THEN 3
  ELSE IF b \in Range(product_buttons_hi) \cup Range(product_buttons_en) THEN 4
  ELSE 0

\* C8: the buttons come in the order returns/refunds, order/tracking, payment,
\* product; a primary-locale reply that contains "return" and "order" gets at least
\* two buttons, the return buttons before the order button.
C8_TopicOrder ==
  fn_pc = "suggested" =>
    /\ \A i \in 1..Len(out_buttons) : TopicOf(out_buttons[i]) \in 1..4
    /\ \A i, j \in 1..Len(out_buttons) :
         i < j => TopicOf(out_buttons[i]) <= TopicOf(out_buttons[j])
    /\ (/\ in_lang = "en"
        /\ Contains(lower(in_text), return_words[1])
        /\ Contains(lower(in_text), order_words[1]))
       => /\ Len(out_buttons) >= 2
          /\ \E i, j \in 1..Len(out_buttons) :
               /\ i < j
               /\ out_buttons[i] \in Range(return_buttons_en)
               /\ out_buttons[j] \in Range(order_buttons_en)

\* a primary-locale reply with "order" written before "return"
C8_Witness ==
  /\ fn_pc = "suggested" /\ in_lang = "en"
  /\ in_text = Words[1] \o <<32>> \o Words[4]
  /\ Len(out_buttons) = 3

\* C9: the detector answers the secondary locale for a text with a Devanagari
\* character whatever the keyword counts, and otherwise exactly when more secondary
\* than primary keywords occur in it; a tie, as for the empty text, is primary.
C9_DetectRule ==
  fn_pc = "detected" =>
    /\ HasDevanagari(in_text) => out_lang = "hi"
    /\ ~HasDevanagari(in_text) =>
         (out_lang = "hi" <=> Hits(hindi_words, in_text) > Hits(english_words, in_text))
    /\ Hits(hindi_words, in_text) = Hits(english_words, in_text) /\ ~HasDevanagari(in_text)
         => out_lang = "en"
    /\ in_text = None => out_lang = "en"
    /\ out_lang \in {"hi", "en"}

\* a text without Devanagari whose two counts tie above zero
C9_Witness ==
  /\ fn_pc = "detected"
  /\ ~HasDevanagari(in_text)
  /\ Hits(hindi_words, in_text) = Hits(english_words, in_text)
  /\ Hits(hindi_words, in_text) > 0
  /\ out_lang = "en"

\* C10: whatever is wrong with a catalog file, its loader returns the empty sequence
\* and raises nothing, so start-up goes on to the session.
C10_LoadNeverRaises ==
  /\ startup_pc # "crashed"
  /\ startup_pc \in {"load_orders", "init_session", "started"}
       /\ products_file.state \in BadFiles => products = <<>>
  /\ startup_pc \in {"init_session", "started"}
       /\ orders_file.state \in BadFiles => orders = <<>>

\* C11: when a completion is triggered on a transcript holding at least 8 messages
\* before the current user message, the request is the system prompt, then the 8
\* messages before the current one, then the current user message: 10 messages.
C11_TenMessages ==
  pc = "stream" /\ Len(messages) >= HistoryWindow + 1 =>
    LET n == Len(messages)
    IN  /\ Len(api_messages_payload) = HistoryWindow + 2
        /\ api_messages_payload =
             <<Message("system", system_prompt_with_data)>>
               \o SubSeq(messages, n - HistoryWindow, n - 1)
               \o <<Last(messages)>>

\* C12: whatever submissions, suggestion triggers and completions happen, every
\* step leaves the earlier transcript as a prefix of the later one, the first
\* message is the assistant's greeting, and the roles alternate assistant, user,
\* assistant, ... so that no two consecutive messages have the same role.
C12_AppendOnlyAlternating ==
  [][/\ Len(messages') >= Len(messages)
     /\ SubSeq(messages', 1, Len(messages)) = messages
     /\ messages'[1] = Message("assistant", greeting)
     /\ \A i \in 1..Len(messages') :
          messages'[i].role = IF i % 2 = 1 THEN "assistant" ELSE "user"]_vars

\* C13: in every state the gate flag is set exactly when the last message of the
\* transcript is a user message, so that whenever the gate is set the completion
\* step (guarded by the gate and by that last message) runs, and the session is
\* never left with its input disabled and no completion to run, also when a run
\* is abandoned and the script is run again before the completion finishes.
C13_GateIffLastUser ==
  /\ processing <=> Last(messages).role = "user"
  /\ processing /\ pc # "abandoned" => pc = "stream" /\ stream # "none"
====
